---- MODULE Spec2Model ----
(***************************************************************************)
(* Model of copernicus_downloader: the incremental download scheduler      *)
(* (incremental.py), the storage backends it commits to (storage.py) and   *)
(* the dataset loop of main.py.                                            *)
(***************************************************************************)
EXTENDS Integers, Sequences, FiniteSets, TLC

(***************************************************************************)
(* Bounds of the model.                                                    *)
(***************************************************************************)
\* most units one run iterates over (after the static filters of its loop)
MaxUnits == 3
\* most invocations of main() in one behaviour
MaxInvocations == 2

\* dataset names: "A" and "B" can be configured, "X" never is
DS == {"A", "B"}

(***************************************************************************)
(* Calendar: datetime.date as <<year, month, day>>.                        *)
(***************************************************************************)
IsLeap(y) == (y % 4 = 0 /\ y % 100 # 0) \/ y % 400 = 0

\* calendar.monthrange(year, month)[1]
MonthRange(y, m) ==
    IF m = 2 THEN (IF IsLeap(y) THEN 29 ELSE 28)
    ELSE IF m \in {4, 6, 9, 11} THEN 30 ELSE 31

\* days in the years before year y (datetime._days_before_year)
DaysBeforeYear(y) ==
    LET p == y - 1 IN p * 365 + (p \div 4) - (p \div 100) + (p \div 400)

\* days of year y in the months before month m (datetime._days_before_month)
DaysBeforeMonth(y, m) ==
    LET cum == <<0, 31, 59, 90, 120, 151, 181, 212, 243, 273, 304, 334>>
    IN  cum[m] + (IF m > 2 /\ IsLeap(y) THEN 1 ELSE 0)

\* date.toordinal
ToOrdinal(d) == DaysBeforeYear(d[1]) + DaysBeforeMonth(d[1], d[2]) + d[3]

\* date.fromordinal
FromOrdinal(n) ==
    LET y == CHOOSE yy \in (n \div 366)..((n \div 365) + 1) :
                 DaysBeforeYear(yy) < n /\ n <= DaysBeforeYear(yy + 1)
        r == n - DaysBeforeYear(y)
        m == CHOOSE mm \in 1..12 :
                 DaysBeforeMonth(y, mm) < r /\ r <= DaysBeforeMonth(y, mm) + MonthRange(y, mm)
    IN  <<y, m, r - DaysBeforeMonth(y, m)>>

\* d - timedelta(days=n)
MinusDays(d, n) == FromOrdinal(ToOrdinal(d) - n)

\* date comparison a < b (lexicographic on year, month, day)
DateLT(a, b) ==
    \/ a[1] < b[1]
    \/ a[1] = b[1] /\ a[2] < b[2]
    \/ a[1] = b[1] /\ a[2] = b[2] /\ a[3] < b[3]

\* variant: the last day is left out
daterange_ExcludesEnd(start, end) ==
    [n \in 1..(ToOrdinal(end) - ToOrdinal(start)) |->
        FromOrdinal(ToOrdinal(start) + (n - 1))]

\* the days start, start+1, ..., end in order (empty when end < start)
daterange(start, end) ==
    [n \in 1..((ToOrdinal(end) - ToOrdinal(start)) + 1) |->
        FromOrdinal(ToOrdinal(start) + (n - 1))]

(***************************************************************************)
(* Formatting and parsing of date fields.                                  *)
(***************************************************************************)
TwoDigit ==
    <<"01", "02", "03", "04", "05", "06", "07", "08", "09", "10",
      "11", "12", "13", "14", "15", "16", "17", "18", "19", "20",
      "21", "22", "23", "24", "25", "26", "27", "28", "29", "30", "31">>
OneDigit == <<"1", "2", "3", "4", "5", "6", "7", "8", "9">>

\* f"{n:02d}" for 1 <= n <= 31
Fmt2(n) == TwoDigit[n]

\* int(s) for the decimal strings "1".."9" and "01".."31"
ParseInt(s) ==
    IF \E n \in 1..9 : OneDigit[n] = s
    THEN CHOOSE n \in 1..9 : OneDigit[n] = s
    ELSE CHOOSE n \in 1..31 : TwoDigit[n] = s

\* d.isoformat(): "YYYY-MM-DD" as its three fields
IsoFormat(d) == <<d[1], Fmt2(d[2]), Fmt2(d[3])>>

\* membership of a string in a list
InList(x, list) == \E i \in 1..Len(list) : list[i] = x

\* min(years)
MinOf(list) == CHOOSE y \in {list[i] : i \in 1..Len(list)} :
                   \A j \in 1..Len(list) : y <= list[j]

(***************************************************************************)
(* Request templates and payloads.  A payload is the dict handed to the    *)
(* provider, restricted to its date fields; <<>> stands for an absent (or  *)
(* empty) field.                                                           *)
(***************************************************************************)
AllMonths == [m \in 1..12 |-> Fmt2(m)]
AllDays == [d \in 1..31 |-> Fmt2(d)]

\* ensure_months: default an absent or empty month list to "01".."12"
ensure_months(request) ==
    IF request.month = <<>> THEN [request EXCEPT !.month = AllMonths] ELSE request

\* ensure_days: default an absent or empty day list to "01".."31"
ensure_days(request) ==
    IF request.day = <<>> THEN [request EXCEPT !.day = AllDays] ELSE request

\* the template after lines 194-195
Normalized(template) == ensure_days(ensure_months(template))

\* f"{a}/{b}" of two ISO dates
Interval(a, b) == <<a, b>>

\* build_request (daily)
build_request(request_template, d, use_range) ==
    IF use_range
    THEN [request_template EXCEPT !.date = <<Interval(IsoFormat(d), IsoFormat(d))>>]
    ELSE [request_template EXCEPT !.year = <<d[1]>>,
                                  !.month = <<Fmt2(d[2])>>,
                                  !.day = <<Fmt2(d[3])>>]

\* variant: February always ends on the 28th
build_monthly_request_Feb28(request_template, year, month, use_range) ==
    IF use_range
    THEN [request_template EXCEPT
            !.date = <<Interval(<<year, Fmt2(month), "01">>,
                                <<year, Fmt2(month),
                                  Fmt2(IF month = 2 THEN 28 ELSE MonthRange(year, month))>>)>>]
    ELSE [request_template EXCEPT !.year = <<year>>,
                                  !.month = <<Fmt2(month)>>,
                                  !.day = AllDays]

\* build_monthly_request
build_monthly_request(request_template, year, month, use_range) ==
    IF use_range
    THEN [request_template EXCEPT
            !.date = <<Interval(<<year, Fmt2(month), "01">>,
                                <<year, Fmt2(month), Fmt2(MonthRange(year, month))>>)>>]
    ELSE [request_template EXCEPT !.year = <<year>>,
                                  !.month = <<Fmt2(month)>>,
                                  !.day = AllDays]

\* the request of the yearly loop (lines 206-212)
build_yearly_request(request_template, year, use_range) ==
    IF use_range
    THEN [request_template EXCEPT
            !.date = <<Interval(<<year, "01", "01">>, <<year, "12", "31">>)>>]
    ELSE [request_template EXCEPT !.year = <<year>>]

(***************************************************************************)
(* Storage keys and local staging paths.  A key is the sequence of its     *)
(* "/"-separated parts and what follows the unit in its last part, ext,    *)
(* piece by piece: ".grib", ".json".                                       *)
(***************************************************************************)
\* f"{key}.json"
Sidecar(key) == [key EXCEPT !.ext = Append(@, ".json")]

\* f"{dataset}/{year}.grib"
YearlyKey(dataset, year) == [path |-> <<dataset, year>>, ext |-> <<".grib">>]
\* f"{dataset}/{year}/{m}.grib"
MonthlyKey(dataset, year, m) == [path |-> <<dataset, year, m>>, ext |-> <<".grib">>]
\* f"{dataset}/{d.year}/{d.month:02d}/{d.day:02d}.grib"
DailyKey(dataset, d) ==
    [path |-> <<dataset, d[1], Fmt2(d[2]), Fmt2(d[3])>>, ext |-> <<".grib">>]

\* get_tmpdir: every run of the process reads the same CDS_TMPDIR
get_tmpdir == "/tmp"

\* os.path.join(tmpdir, f"{year}.grib") and the monthly and daily forms
YearlyTmp(tmpdir, year) == [dir |-> tmpdir, name |-> <<year>>, ext |-> <<".grib">>]
MonthlyTmp(tmpdir, year, m) == [dir |-> tmpdir, name |-> <<year, m>>, ext |-> <<".grib">>]
DailyTmp(tmpdir, d) == [dir |-> tmpdir, name |-> IsoFormat(d), ext |-> <<".grib">>]

\* f"{tmpfile}.json"
TmpJson(tmpfile) == [tmpfile EXCEPT !.ext = Append(@, ".json")]

(***************************************************************************)
(* The elements each loop of incremental_download iterates over, in the    *)
(* order of the loop, after the conditions that do not read storage.       *)
(*   unit : <<year, month, day>>, 0 for a component the unit has not       *)
(*   year : the value of the outer loop variable                           *)
(***************************************************************************)
\* lines 168-175: start_date
StartDate(c, years) ==
    LET start_date == <<MinOf(years), 1, 1>>
    IN  IF c.min_date # <<>> /\ DateLT(start_date, c.min_date)
        THEN c.min_date ELSE start_date

\* variant: the lag is not applied
Today_NoLag(c, clock) == clock

\* lines 178-179: today
Today(c, clock) ==
    IF c.lag_days > 0 THEN MinusDays(clock, c.lag_days) ELSE clock

RECURSIVE YearlyItems(_, _, _, _)
\* lines 198-201 and 214
YearlyItems(c, tmpdir, year, today) ==
    IF year > today[1] THEN <<>>
    ELSE <<[unit |-> <<year, 0, 0>>, year |-> year,
            key |-> YearlyKey(c.name, year),
            tmpfile |-> YearlyTmp(tmpdir, year),
            request |-> build_yearly_request(Normalized(c.request), year, c.use_range)]>>
         \o YearlyItems(c, tmpdir, year + 1, today)

\* lines 235-247: the inner loop of one year
MonthsOfYear(c, tmpdir, year, today) ==
    LET months == Normalized(c.request).month
        all == [i \in 1..Len(months) |->
                  [unit |-> <<year, ParseInt(months[i]), 0>>, year |-> year,
                   key |-> MonthlyKey(c.name, year, months[i]),
                   tmpfile |-> MonthlyTmp(tmpdir, year, months[i]),
                   request |-> build_monthly_request(Normalized(c.request), year,
                                   ParseInt(months[i]), c.use_range)]]
    IN  SelectSeq(all, LAMBDA it :
            ~(year > today[1] \/ (year = today[1] /\ it.unit[2] > today[2])))

RECURSIVE MonthlyItems(_, _, _, _)
\* line 234: the outer loop
MonthlyItems(c, tmpdir, year, today) ==
    IF year > today[1] THEN <<>>
    ELSE MonthsOfYear(c, tmpdir, year, today) \o MonthlyItems(c, tmpdir, year + 1, today)

\* lines 269-281
DailyItems(c, tmpdir, start_date, today) ==
    LET tmpl == Normalized(c.request)
        kept == SelectSeq(daterange(start_date, today), LAMBDA d :
                    InList(Fmt2(d[2]), tmpl.month) /\ InList(Fmt2(d[3]), tmpl.day))
    IN  [i \in 1..Len(kept) |->
            [unit |-> kept[i], year |-> kept[i][1],
             key |-> DailyKey(c.name, kept[i]),
             tmpfile |-> DailyTmp(tmpdir, kept[i]),
             request |-> build_request(tmpl, kept[i], c.use_range)]]

\* the loop selected by the granularity (lines 197, 233, 268)
Items(c, years, clock) ==
    IF c.granularity = "yearly"
    THEN YearlyItems(c, get_tmpdir, MinOf(years), Today(c, clock))
    ELSE IF c.granularity = "monthly"
    THEN MonthlyItems(c, get_tmpdir, MinOf(years), Today(c, clock))
    ELSE IF c.granularity = "daily"
    THEN DailyItems(c, get_tmpdir, StartDate(c, years), Today(c, clock))
    ELSE <<>>

(***************************************************************************)
(* safe_retrieve: classification of the provider's answer.                 *)
(*   resp.kind : "ok"    retrieve returned                                 *)
(*               "http"  retrieve raised requests.HTTPError                *)
(*               "exc"   retrieve raised another exception                 *)
(*   resp.structured : the response body is JSON with an "error" entry     *)
(*   resp.message    : error["message"], <<>> when the entry is missing    *)
(*                     or is not a string                                  *)
(*   resp.bad        : the part of the body that has a type the code does  *)
(*                     not expect, "none" when there is none:              *)
(*                     "details"   the body is not a dict                  *)
(*                     "error"     the "error" entry is not a dict         *)
(*                     "traceback" context["traceback"] is not a string    *)
(*                     "message"   error["message"] is not a string        *)
(* Messages are sequences of characters.                                   *)
(***************************************************************************)
UpperCase == <<"A", "B", "C", "D", "E", "F", "G", "H", "I", "J", "K", "L", "M", "N", "O", "P", "Q", "R", "S", "T", "U", "V", "W", "X", "Y", "Z">>
LowerCase == <<"a", "b", "c", "d", "e", "f", "g", "h", "i", "j", "k", "l", "m", "n", "o", "p", "q", "r", "s", "t", "u", "v", "w", "x", "y", "z">>

\* str.lower() on one character and on a string
LowerChar(ch) ==
    IF \E i \in 1..26 : UpperCase[i] = ch
    THEN LowerCase[CHOOSE i \in 1..26 : UpperCase[i] = ch]
    ELSE ch
Lower(s) == [i \in 1..Len(s) |-> LowerChar(s[i])]

\* needle in s
Contains(s, needle) ==
    \E i \in 0..(Len(s) - Len(needle)) : SubSeq(s, i + 1, i + Len(needle)) = needle

NotAvailableYet == <<"n", "o", "t", " ", "a", "v", "a", "i", "l", "a", "b", "l", "e", " ", "y", "e", "t">>
UnknownError == <<"U", "n", "k", "n", "o", "w", "n", " ", "e", "r", "r", "o", "r">>

\* err.get("message", "Unknown error")
MessageOf(resp) == IF resp.message = <<>> THEN UnknownError ELSE resp.message

\* line 88
IsNotAvailableYet(message) == Contains(Lower(message), NotAvailableYet)

\* safe_retrieve: what the call does for the provider's answer resp
\*   [do |-> "return", value |-> TRUE/FALSE] or [do |-> "raise", exc |-> type]
safe_retrieve(resp, fail_on_error) ==
    IF resp.kind = "ok" THEN [do |-> "return", value |-> TRUE, exc |-> "none"]
    ELSE IF resp.kind = "http" THEN
        \* lines 71-72: the membership test or the subscript on a body that
        \* is not a dict
        IF resp.bad = "details"
        THEN [do |-> "raise", value |-> FALSE, exc |-> "TypeError"]
        ELSE IF resp.structured THEN
            \* line 73: err.get on an error entry that is not a dict;
            \* line 84: tb.split on a traceback that is not a string;
            \* line 88: message.lower() on a message that is not a string
            IF resp.bad \in {"error", "traceback", "message"}
            THEN [do |-> "raise", value |-> FALSE, exc |-> "AttributeError"]
            ELSE IF IsNotAvailableYet(MessageOf(resp)) THEN
                IF ~fail_on_error
                THEN [do |-> "return", value |-> FALSE, exc |-> "none"]
                ELSE [do |-> "raise", value |-> FALSE, exc |-> "HTTPError"]
            ELSE IF fail_on_error
            THEN [do |-> "raise", value |-> FALSE, exc |-> "RuntimeError"]
            ELSE [do |-> "return", value |-> FALSE, exc |-> "none"]
        ELSE IF fail_on_error
        THEN [do |-> "raise", value |-> FALSE, exc |-> "HTTPError"]
        ELSE [do |-> "return", value |-> FALSE, exc |-> "none"]
    ELSE [do |-> "raise", value |-> FALSE, exc |-> "Exception"]

\* the provider's answers the model draws from
MsgLower == <<"d", "a", "t", "a", " ", "n", "o", "t", " ", "a", "v", "a", "i", "l", "a", "b", "l", "e", " ", "y", "e", "t">>
MsgMixed == <<"D", "a", "t", "a", " ", "N", "o", "t", " ", "A", "v", "a", "i", "l", "a", "b", "l", "e", " ", "Y", "E", "T", ".">>
MsgOther == <<"n", "o", "t", " ", "a", "v", "a", "i", "l", "a", "b", "l", "e">>
Responses ==
    {[kind |-> "ok", structured |-> FALSE, message |-> <<>>, bad |-> "none"],
     [kind |-> "exc", structured |-> FALSE, message |-> <<>>, bad |-> "none"],
     [kind |-> "http", structured |-> FALSE, message |-> <<>>, bad |-> "none"],
     [kind |-> "http", structured |-> TRUE, message |-> <<>>, bad |-> "none"]}
    \cup {[kind |-> "http", structured |-> TRUE, message |-> m, bad |-> "none"] :
            m \in {MsgLower, MsgMixed, MsgOther}}
    \cup {[kind |-> "http", structured |-> TRUE, message |-> MsgLower,
            bad |-> "traceback"]}
    \cup {[kind |-> "http", structured |-> TRUE, message |-> <<>>, bad |-> b] :
            b \in {"details", "error", "message"}}

\* the message holds the phrase "not available yet" in some mix of cases
HasPhrase(message) ==
    \E i \in 0..(Len(message) - Len(NotAvailableYet)) :
        \A k \in 1..Len(NotAvailableYet) :
            \/ message[i + k] = NotAvailableYet[k]
            \/ \E j \in 1..26 : /\ LowerCase[j] = NotAvailableYet[k]
                                /\ UpperCase[j] = message[i + k]

\* the kind of answer the provider gave: "Success", "NotYetAvailable"
\* (structured error naming the phrase), "Fatal" (another structured
\* error), "Transport" (HTTP error without structured body), "Exception"
\* (an exception that is not an HTTP error)
Outcome(resp) ==
    IF resp.kind = "ok" THEN "Success"
    ELSE IF resp.kind = "exc" THEN "Exception"
    ELSE IF ~resp.structured THEN "Transport"
    ELSE IF resp.message # <<>> /\ HasPhrase(resp.message) THEN "NotYetAvailable"
    ELSE "Fatal"

(***************************************************************************)
(* Storage (storage.py) and the local staging directory.  Both are maps    *)
(* from the names of the files present to their content.                   *)
(***************************************************************************)
\* Storage.exists
exists(st, key) == key \in DOMAIN st

\* variant: a sidecar never marks its unit as requested
already_requested_Never(st, key) == FALSE

\* already_requested
already_requested(st, key) == exists(st, Sidecar(key))

\* variant: the gate looks at the primary key only
IsDone_PrimaryOnly(st, key) == exists(st, key)

\* the condition of lines 202, 240, 276
IsDone(st, key) == exists(st, key) \/ already_requested(st, key)

\* a map with one more (or one replaced) entry
Put(f, k, v) == [x \in DOMAIN f \cup {k} |-> IF x = k THEN v ELSE f[x]]
\* a map without an entry
Drop(f, k) == [x \in DOMAIN f \ {k} |-> f[x]]

\* FSStorage.save: os.replace moves the local file; it raises when the
\* local file is missing
FSSave(st, files, local_path, key) ==
    IF local_path \in DOMAIN files
    THEN [ok |-> TRUE, storage |-> Put(st, key, files[local_path]),
          tmp |-> Drop(files, local_path)]
    ELSE [ok |-> FALSE, storage |-> st, tmp |-> files]

\* S3Storage.save: upload_file copies the local file; it raises when the
\* local file is missing
S3Save(st, files, local_path, key) ==
    IF local_path \in DOMAIN files
    THEN [ok |-> TRUE, storage |-> Put(st, key, files[local_path]), tmp |-> files]
    ELSE [ok |-> FALSE, storage |-> st, tmp |-> files]

\* storage.save of the configured backend; up is FALSE when the backend
\* fails (disk or network error), and then nothing is stored
Save(kind, up, st, files, local_path, key) ==
    IF ~up THEN [ok |-> FALSE, storage |-> st, tmp |-> files]
    ELSE IF kind = "fs" THEN FSSave(st, files, local_path, key)
    ELSE S3Save(st, files, local_path, key)

\* what client.retrieve writes to its target: the artifact of this
\* dataset for this request
Artifact(dataset, request) == [grib |-> dataset, request |-> request]

\* save_json: the file holds the JSON form of the object
save_json(files, path, obj) == Put(files, path, [json |-> obj])

(***************************************************************************)
(* State.                                                                  *)
(***************************************************************************)
VARIABLES
    datasets,      \* cfg["datasets"]: configured name -> dataset_cfg
    order,         \* the configured names in the order of the file
    years,         \* cfg["years"]
    clock,         \* date.today(), read when a run of main starts
    backend,       \* "fs" or "s3" (get_storage)
    storage,       \* the permanent keys and their content
    tmp,           \* the files of the staging directory
    run,           \* run[ds]: the call of incremental_download for ds
    mainPc,        \* "idle", "loop", "call" (main)
    mainList,      \* main: datasets
    mainPos,       \* main: position of the for loop in datasets
    invocations,   \* how many times main was started
    committed,     \* the units whose two saves returned: key and request sent
    post           \* the call of the post-processing function main

vars == <<datasets, order, years, clock, backend, storage, tmp, run,
          mainPc, mainList, mainPos, invocations, committed, post>>

config == <<datasets, order, years, clock, backend>>

\* the post-processing function was not called yet
\*   pc       : "idle", "write", "save", "returned", "raised"
\*   tmpfile, destfile : the arguments of the call
\*   rows     : what was read from tmpfile
\*   uneven   : a row after the first has a field the first has not
\*   count    : the calls made so far
IdlePost ==
    [pc |-> "idle", tmpfile |-> <<>>, destfile |-> <<>>, rows |-> <<>>,
     uneven |-> FALSE, count |-> 0]

\* a run that was not called yet
IdleRun ==
    [pc |-> "idle", items |-> <<>>, idx |-> 1, calls |-> <<>>,
     broke |-> FALSE, nya |-> 0, last |-> "none", sent |-> <<>>,
     exc |-> "none", failed |-> FALSE, refused |-> {}]

\* lines 159-195: the state of a call of incremental_download at its loop
\*   pc     : "loop", "retrieve", "save_json", "save_sidecar",
\*            "save_primary", "returned", "raised"
\*   items  : the elements of the loop, idx the position in them
\*   calls  : the units a provider call was issued for, in order
\*   broke  : a break was executed
\*   nya    : the position in calls of the first call whose
\*            not-yet-available answer stopped the loop, 0 when none did
\*   last   : the kind of answer of the provider call just made ("none"
\*            once the loop went on)
\*   sent   : the request passed to the last provider call
\*   exc    : the exception the call raised to its caller
\*   failed : a provider call or a storage save of the call did not succeed
\*   refused: the units whose provider call did not succeed
\* lines 301-302: another granularity raises ValueError
NewRun(c, ys, now) ==
    LET supported == c.granularity \in {"yearly", "monthly", "daily"}
    IN  [pc |-> IF supported THEN "loop" ELSE "raised",
         items |-> Items(c, ys, now), idx |-> 1, calls |-> <<>>,
         broke |-> FALSE, nya |-> 0, last |-> "none", sent |-> <<>>,
         exc |-> IF supported THEN "none" ELSE "ValueError",
         failed |-> FALSE, refused |-> {}]

\* the element the run is working on
Item(r) == run[r].items[run[r].idx]

\* the states of a dataset run named by the design
Phase(r) ==
    IF run[r].pc = "idle" THEN "Idle"
    ELSE IF run[r].pc = "raised" THEN "Aborted"
    ELSE IF run[r].pc = "returned"
    THEN (IF run[r].broke THEN "Halted" ELSE "Completed")
    ELSE "Running"

(***************************************************************************)
(* Configurations the model draws from.                                    *)
(***************************************************************************)
\* no month and no day; months out of order; a month twice
Templates ==
    {[year |-> <<>>, month |-> <<>>, day |-> <<>>, date |-> <<>>],
     [year |-> <<>>, month |-> <<"02", "01">>, day |-> <<"15">>, date |-> <<>>],
     [year |-> <<>>, month |-> <<"02", "02">>, day |-> <<"15">>, date |-> <<>>]}
MinDates == {<<>>, <<2024, 1, 20>>}
Lags == {0, 15}
YearLists == {<<2024>>, <<2024, 2023>>}
Clocks == {<<2025, 1, 15>>}

Configs(name) ==
    [name : {name}, granularity : {"yearly", "monthly", "daily", "hourly"},
     request : Templates, min_date : MinDates, lag_days : Lags,
     use_range : BOOLEAN, fail_on_error : BOOLEAN]

\* the configurations of two datasets whose runs are interleaved
ConcConfigs(name) ==
    [name : {name}, granularity : {"yearly", "daily"},
     request : {[year |-> <<>>, month |-> <<"02">>, day |-> <<"15">>, date |-> <<>>]},
     min_date : {<<>>}, lag_days : {0},
     use_range : {FALSE}, fail_on_error : BOOLEAN]

InitCommon ==
    /\ years \in YearLists
    /\ storage = <<>>
    /\ tmp = <<>>
    /\ run = [r \in DS |-> IdleRun]
    /\ mainPos = 1
    /\ mainList = <<>>
    /\ invocations = 0
    /\ committed = {}
    /\ post = IdlePost

\* main runs the configured datasets one after the other
Init ==
    /\ InitCommon
    /\ clock \in Clocks
    /\ backend = "fs"
    /\ mainPc = "idle"
    /\ \E a \in Configs("A") :
         /\ \A now \in Clocks : Len(Items(a, years, now)) <= MaxUnits
         /\ datasets = [n \in {"A"} |-> a]
    /\ order = <<"A">>

(***************************************************************************)
(* incremental_download, one step at a time.                               *)
(***************************************************************************)
\* variant: the loop never skips an element
Scan_NoSkip(st, items, i) == i

RECURSIVE Scan(_, _, _)
\* the first element from position i on that is not done (the continue of
\* lines 202-204, 240-242, 276-278); Len(items) + 1 when there is none
Scan(st, items, i) ==
    IF i > Len(items) THEN i
    ELSE IF IsDone(st, items[i].key) THEN Scan(st, items, i + 1)
    ELSE i

\* head of the loop: skip the elements that are done; stop at the first
\* one to request, or leave the loop and return
LoopHead(r) ==
    /\ run[r].pc = "loop"
    /\ LET j == Scan(storage, run[r].items, run[r].idx)
       IN  run' = [run EXCEPT ![r] =
                [@ EXCEPT !.idx = j,
                          !.last = "none",
                          !.pc = IF j > Len(run[r].items) THEN "returned"
                                 ELSE "retrieve"]]
    /\ UNCHANGED <<config, post, storage, tmp, mainPc, mainList, mainPos,
                   invocations, committed>>

\* where a break takes the loop: out of it, and for the monthly loops out
\* of the inner loop only, to the first month of the next year
AfterBreak(c, items, i) ==
    IF c.granularity = "monthly"
    THEN IF \E j \in (i + 1)..Len(items) : items[j].year # items[i].year
         THEN CHOOSE j \in (i + 1)..Len(items) :
                /\ items[j].year # items[i].year
                /\ \A k \in (i + 1)..(j - 1) : items[k].year = items[i].year
         ELSE Len(items) + 1
    ELSE Len(items) + 1

\* lines 215-225, 229-231 (and the monthly and daily copies): the provider
\* call and what the loop does with its result
Retrieve(r) ==
    /\ run[r].pc = "retrieve"
    /\ \E resp \in Responses :
         LET c == datasets[r]
             res == safe_retrieve(resp, c.fail_on_error)
             called == [run[r] EXCEPT !.calls = Append(@, Item(r).unit),
                                      !.last = Outcome(resp),
                                      !.sent = Item(r).request,
                                      !.failed = @ \/ resp.kind # "ok",
                                      !.refused = IF resp.kind = "ok" THEN @
                                                  ELSE @ \cup {Item(r).unit}]
             break == [called EXCEPT
                         !.pc = "loop", !.broke = TRUE,
                         !.idx = AfterBreak(c, run[r].items, run[r].idx)]
         IN  /\ tmp' = IF resp.kind = "ok"
                       THEN Put(tmp, Item(r).tmpfile, Artifact(c.name, Item(r).request))
                       ELSE tmp
             /\ run' = [run EXCEPT ![r] =
                  IF res.do = "return" THEN
                      IF res.value THEN [called EXCEPT !.pc = "save_json"]
                      ELSE IF c.fail_on_error THEN break
                      ELSE [called EXCEPT !.pc = "loop", !.idx = @ + 1]
                  ELSE IF res.exc = "HTTPError" THEN
                      [break EXCEPT !.nya = IF Outcome(resp) = "NotYetAvailable" /\ @ = 0
                                            THEN Len(called.calls) ELSE @]
                  ELSE [called EXCEPT !.pc = "raised", !.exc = res.exc]]
    /\ UNCHANGED <<config, post, storage, mainPc, mainList, mainPos, invocations,
                   committed>>

\* lines 226, 261, 294
SaveJson(r) ==
    /\ run[r].pc = "save_json"
    /\ tmp' = save_json(tmp, TmpJson(Item(r).tmpfile), Item(r).request)
    /\ run' = [run EXCEPT ![r].pc = "save_sidecar"]
    /\ UNCHANGED <<config, post, storage, mainPc, mainList, mainPos, invocations,
                   committed>>

\* variant: the sidecar is not stored
SaveSidecar_NoStore(r) ==
    /\ run[r].pc = "save_sidecar"
    /\ run' = [run EXCEPT ![r].pc = "save_primary"]
    /\ UNCHANGED <<config, post, storage, tmp, mainPc, mainList, mainPos,
                   invocations, committed>>

\* lines 227, 262, 295
SaveSidecar(r) ==
    /\ run[r].pc = "save_sidecar"
    /\ \E up \in BOOLEAN :
         LET res == Save(backend, up, storage, tmp, TmpJson(Item(r).tmpfile),
                         Sidecar(Item(r).key))
         IN  /\ storage' = res.storage
             /\ tmp' = res.tmp
             /\ run' = [run EXCEPT ![r] =
                  IF res.ok THEN [@ EXCEPT !.pc = "save_primary"]
                  ELSE [@ EXCEPT !.pc = "raised", !.exc = "StorageError",
                                 !.failed = TRUE]]
    /\ UNCHANGED <<config, post, mainPc, mainList, mainPos, invocations, committed>>

\* lines 228, 263, 296, and the step to the next element
SavePrimary(r) ==
    /\ run[r].pc = "save_primary"
    /\ \E up \in BOOLEAN :
         LET res == Save(backend, up, storage, tmp, Item(r).tmpfile, Item(r).key)
         IN  /\ storage' = res.storage
             /\ tmp' = res.tmp
             /\ run' = [run EXCEPT ![r] =
                  IF res.ok THEN [@ EXCEPT !.pc = "loop", !.idx = @ + 1]
                  ELSE [@ EXCEPT !.pc = "raised", !.exc = "StorageError",
                                 !.failed = TRUE]]
             /\ committed' = IF res.ok
                             THEN committed \cup {[key |-> Item(r).key,
                                                   request |-> run[r].sent]}
                             ELSE committed
    /\ UNCHANGED <<config, post, mainPc, mainList, mainPos, invocations>>

(***************************************************************************)
(* main (main.py lines 30-45).                                             *)
(***************************************************************************)
\* lines 35-38: sys.argv[1] selects one dataset, "" selects all
MainStart ==
    /\ mainPc = "idle"
    /\ invocations < MaxInvocations
    /\ \E param \in {"", "A", "B", "X"} :
         mainList' = IF param # "" THEN <<param>> ELSE order
    /\ clock' \in {now \in Clocks : ~DateLT(now, clock)}
    /\ mainPos' = 1
    /\ mainPc' = "loop"
    /\ invocations' = invocations + 1
    /\ run' = [r \in DS |-> IdleRun]
    /\ UNCHANGED <<datasets, order, years, backend, storage, tmp, committed, post>>

\* lines 40-45: one iteration of the for loop, up to the call
MainLoop ==
    /\ mainPc = "loop"
    /\ IF mainPos > Len(mainList)
       THEN /\ mainPc' = "idle"
            /\ UNCHANGED <<mainPos, run>>
       ELSE IF mainList[mainPos] \notin DOMAIN datasets
       THEN /\ mainPos' = mainPos + 1
            /\ UNCHANGED <<mainPc, run>>
       ELSE /\ run' = [run EXCEPT ![mainList[mainPos]] =
                          NewRun(datasets[mainList[mainPos]], years, clock)]
            /\ mainPc' = "call"
            /\ UNCHANGED mainPos
    /\ UNCHANGED <<config, post, storage, tmp, mainList, invocations, committed>>

\* line 45: incremental_download returned
MainReturn ==
    /\ mainPc = "call"
    /\ run[mainList[mainPos]].pc = "returned"
    /\ mainPos' = mainPos + 1
    /\ mainPc' = "loop"
    /\ UNCHANGED <<config, post, storage, tmp, run, mainList, invocations, committed>>

\* line 45: incremental_download raised; nothing in main catches it
MainRaise ==
    /\ mainPc = "call"
    /\ run[mainList[mainPos]].pc = "raised"
    /\ mainPc' = "idle"
    /\ UNCHANGED <<config, post, storage, tmp, run, mainList, mainPos, invocations,
                   committed>>

Next ==
    \/ MainStart
    \/ MainLoop
    \/ MainReturn
    \/ MainRaise
    \/ \E r \in DS : LoopHead(r)
    \/ \E r \in DS : Retrieve(r)
    \/ \E r \in DS : SaveJson(r)
    \/ \E r \in DS : SaveSidecar(r)
    \/ \E r \in DS : SavePrimary(r)

Spec == Init /\ [][Next]_vars

\* incremental_download is straight-line code around blocking calls: when
\* every provider call and every storage operation returns or fails, each
\* step of a run that can be taken is taken
RunFairness ==
    \A r \in DS :
        /\ WF_vars(LoopHead(r))
        /\ WF_vars(Retrieve(r))
        /\ WF_vars(SaveJson(r))
        /\ WF_vars(SaveSidecar(r))
        /\ WF_vars(SavePrimary(r))

SpecLive == Spec /\ RunFairness

(***************************************************************************)
(* Two dataset runs scheduled concurrently in one process (section 5 of    *)
(* the design): their steps interleave, they share storage and the         *)
(* staging directory.                                                      *)
(***************************************************************************)
InitConc ==
    /\ InitCommon
    /\ clock = <<2024, 3, 1>>
    /\ backend \in {"fs", "s3"}
    /\ mainPc = "off"
    /\ datasets \in [DS -> UNION {ConcConfigs(n) : n \in DS}]
    /\ \A n \in DS : datasets[n].name = n
    /\ order = <<"A", "B">>

\* the call of incremental_download for dataset r
Begin(r) ==
    /\ mainPc = "off"
    /\ r \in DOMAIN datasets
    /\ run[r].pc = "idle"
    /\ run' = [run EXCEPT ![r] = NewRun(datasets[r], years, clock)]
    /\ UNCHANGED <<config, post, storage, tmp, mainPc, mainList, mainPos,
                   invocations, committed>>

NextConc ==
    \/ \E r \in DS : Begin(r)
    \/ \E r \in DS : LoopHead(r)
    \/ \E r \in DS : Retrieve(r)
    \/ \E r \in DS : SaveJson(r)
    \/ \E r \in DS : SaveSidecar(r)
    \/ \E r \in DS : SavePrimary(r)

SpecConc == InitConc /\ [][NextConc]_vars

(***************************************************************************)
(* main with two configured datasets, A before B (main.py lines 37-45).    *)
(***************************************************************************)
\* the configurations of two datasets main runs one after the other
MainConfigs(name) ==
    [name : {name}, granularity : {"yearly", "hourly"},
     request : {[year |-> <<>>, month |-> <<>>, day |-> <<>>, date |-> <<>>]},
     min_date : {<<>>}, lag_days : {15},
     use_range : {FALSE}, fail_on_error : BOOLEAN]

InitMain ==
    /\ InitCommon
    /\ clock \in Clocks
    /\ backend = "fs"
    /\ mainPc = "idle"
    /\ datasets \in [DS -> UNION {MainConfigs(n) : n \in DS}]
    /\ \A n \in DS : datasets[n].name = n
    /\ order = <<"A", "B">>

SpecMain == InitMain /\ [][Next]_vars

(***************************************************************************)
(* The candidate units and their requests alone: incremental_download up   *)
(* to its loop (lines 159-195 and the loop headers), over a wider range of *)
(* configurations, years and current dates.                                *)
(***************************************************************************)
PlanTemplates ==
    Templates \cup
    {[year |-> <<>>, month |-> <<"01">>, day |-> <<"15">>, date |-> <<>>],
     [year |-> <<>>, month |-> <<>>, day |-> <<"29", "31">>, date |-> <<>>],
     [year |-> <<>>, month |-> <<"02", "12">>, day |-> <<>>, date |-> <<>>]}
PlanMinDates == MinDates \cup {<<2023, 2, 10>>}
PlanLags == Lags
PlanYearLists == YearLists \cup {<<2023>>}
PlanClocks == Clocks \cup {<<2023, 3, 1>>, <<2024, 12, 31>>}

PlanConfigs(name) ==
    [name : {name}, granularity : {"yearly", "monthly", "daily"},
     request : PlanTemplates, min_date : PlanMinDates, lag_days : PlanLags,
     use_range : BOOLEAN, fail_on_error : {TRUE}]

InitPlan ==
    /\ years \in PlanYearLists
    /\ clock \in PlanClocks
    /\ backend = "fs"
    /\ mainPc = "off"
    /\ datasets \in [{"A"} -> PlanConfigs("A")]
    /\ order = <<"A">>
    /\ storage = <<>>
    /\ tmp = <<>>
    /\ run = [r \in DS |-> IdleRun]
    /\ mainPos = 1
    /\ mainList = <<>>
    /\ invocations = 0
    /\ committed = {}
    /\ post = IdlePost

NextPlan == \E r \in DS : Begin(r)

SpecPlan == InitPlan /\ [][NextPlan]_vars

(***************************************************************************)
(* Post-processing (post_processing/normalize_cams_solar_radiation.py), a  *)
(* separate entry point: incremental_download and main never call it.      *)
(***************************************************************************)
MaxNormalize == 2

\* the pieces of a name that start with a dot
IsSuffix(piece) == piece \in {".grib", ".json", ".csv"}

\* os.path.splitext(path)[0]: the name up to its last dot
splitext(ext) ==
    LET dots == {i \in 1..Len(ext) : IsSuffix(ext[i])}
    IN  IF dots = {} THEN ext
        ELSE SubSeq(ext, 1, (CHOOSE i \in dots : \A j \in dots : j <= i) - 1)

\* base_destfile + "_normalized.csv" (lines 93-94)
NormalizedKey(key) ==
    [key EXCEPT !.ext = splitext(@) \o <<"_normalized", ".csv">>]
\* base_tmpfile + "_normalized.csv" (lines 90-91)
NormalizedTmp(local_path) ==
    [local_path EXCEPT !.ext = splitext(@) \o <<"_normalized", ".csv">>]

\* f"/tmp/{os.path.basename(key)}"
Basename(key) == [dir |-> "/tmp", name |-> <<key.path[Len(key.path)]>>, ext |-> key.ext]

\* Storage.get_path: FSStorage returns the path of the stored file itself
\* (the key stands for it), S3Storage downloads the object to /tmp
get_path(kind, st, files, key) ==
    IF kind = "fs" THEN [local |-> key, tmp |-> files]
    ELSE [local |-> Basename(key), tmp |-> Put(files, Basename(key), st[key])]

\* a caller asks storage for a local path of a key; the download of
\* S3Storage fails when the object is missing or the network is down
GetPath(key) ==
    /\ \E up \in BOOLEAN :
         tmp' = IF up /\ key \in DOMAIN storage
                THEN get_path(backend, storage, tmp, key).tmp
                ELSE tmp
    /\ UNCHANGED <<config, post, storage, run, mainPc, mainList, mainPos,
                   invocations, committed>>

\* the file a path names: a local file, or (a key) the stored file of an
\* FSStorage
IsStored(path) == "path" \in DOMAIN path
FileAt(path) ==
    IF IsStored(path)
    THEN IF backend = "fs" /\ path \in DOMAIN storage
         THEN <<storage[path]>> ELSE <<>>
    ELSE IF path \in DOMAIN tmp THEN <<tmp[path]>> ELSE <<>>

\* lines 47-94 of main: tmpfile is opened and read.  parse is what reading
\* gives: "rows", "uneven" (rows, and one after the first has a field the
\* first has not: a date_start and date_end the first row did not get, or
\* more fields than the header), "norows" (only blank data lines: nothing
\* is written, line 107) or "raise" (no header line, no data line, not
\* text); a missing file raises as well
NormalizeRead(tmpfile, destfile, parse) ==
    /\ post.pc \in {"idle", "returned", "raised"}
    /\ post.count < MaxNormalize
    /\ post' = [pc |-> IF FileAt(tmpfile) = <<>> \/ parse = "raise" THEN "raised"
                       ELSE IF parse = "norows" THEN "returned"
                       ELSE "write",
                tmpfile |-> tmpfile, destfile |-> destfile,
                rows |-> IF FileAt(tmpfile) = <<>> \/ parse \in {"norows", "raise"}
                         THEN <<>>
                         ELSE FileAt(tmpfile),
                uneven |-> FileAt(tmpfile) # <<>> /\ parse = "uneven",
                count |-> post.count + 1]
    /\ UNCHANGED <<config, storage, tmp, run, mainPc, mainList, mainPos,
                   invocations, committed>>

\* lines 97-102: the rows are written next to tmpfile.  The fields of the
\* output are those of the first row (line 98): writerows raises
\* ValueError at a row with another field, the output file is left with
\* the rows before it and storage.save is not called
NormalizeWrite ==
    /\ post.pc = "write"
    /\ LET out == NormalizedTmp(post.tmpfile)
           csv == [csv |-> post.rows[1], whole |-> ~post.uneven]
       IN  IF IsStored(out)
           THEN storage' = Put(storage, out, csv) /\ tmp' = tmp
           ELSE tmp' = Put(tmp, out, csv) /\ storage' = storage
    /\ post' = [post EXCEPT !.pc = IF post.uneven THEN "raised" ELSE "save"]
    /\ UNCHANGED <<config, run, mainPc, mainList, mainPos, invocations,
                   committed>>

\* line 105: storage.save(out_tmppath, out_destfile); os.replace of a file
\* of the FSStorage tree moves it inside the tree
NormalizeSave ==
    /\ post.pc = "save"
    /\ \E up \in BOOLEAN :
         LET out == NormalizedTmp(post.tmpfile)
             dest == NormalizedKey(post.destfile)
             res == IF IsStored(out)
                    THEN IF up /\ out \in DOMAIN storage
                         THEN [ok |-> TRUE,
                               storage |-> Put(Drop(storage, out), dest, storage[out]),
                               tmp |-> tmp]
                         ELSE [ok |-> FALSE, storage |-> storage, tmp |-> tmp]
                    ELSE Save(backend, up, storage, tmp, out, dest)
         IN  /\ storage' = res.storage
             /\ tmp' = res.tmp
             /\ post' = [post EXCEPT !.pc = IF res.ok THEN "returned" ELSE "raised"]
    /\ UNCHANGED <<config, run, mainPc, mainList, mainPos, invocations,
                   committed>>

\* the script of the module (lines 110-141): line 115 calls
\* load_config(None), and load_config takes no parameter, so the script ends
\* with a TypeError before it reads the configuration or storage.  (Past
\* that line it would only take keys ending in ".csv" under the prefix
\* "cams-solar-radiation-timeseries", and the downloader stores keys ending
\* in ".grib" and ".grib.json" only.)
NormalizeScript == UNCHANGED vars

\* the keys and the local paths a caller of get_path and of main may pass:
\* what is stored or staged, and the keys and staging paths of the units
PostKeys ==
    DOMAIN storage
        \cup UNION {{run[r].items[i].key : i \in 1..Len(run[r].items)} :
                    r \in DOMAIN datasets}
PostPaths ==
    DOMAIN tmp
        \cup (IF backend = "fs" THEN DOMAIN storage ELSE {})
        \cup UNION {{run[r].items[i].tmpfile : i \in 1..Len(run[r].items)} :
                    r \in DOMAIN datasets}

\* one yearly dataset of one year on either backend
InitPost ==
    /\ InitCommon
    /\ years = <<2024>>
    /\ clock \in Clocks
    /\ backend \in {"fs", "s3"}
    /\ mainPc = "idle"
    /\ datasets \in [{"A"} -> {c \in MainConfigs("A") : c.granularity = "yearly"}]
    /\ order = <<"A">>

\* the downloader, and beside it a process that uses the module
NextPost ==
    \/ Next
    \/ NormalizeScript
    \/ \E key \in PostKeys : GetPath(key)
    \/ \E tmpfile \in PostPaths, destfile \in PostKeys,
          parse \in {"rows", "uneven", "norows", "raise"} :
            NormalizeRead(tmpfile, destfile, parse)
    \/ NormalizeWrite
    \/ NormalizeSave

SpecPost == InitPost /\ [][NextPost]_vars

(***************************************************************************)
(* Properties.                                                             *)
(***************************************************************************)
\* the units of a sequence of calls
Range(seq) == {seq[i] : i \in 1..Len(seq)}

\* the run is between the gate and the end of the commit of its element
InFlight(r) == run[r].pc \in {"retrieve", "save_json", "save_sidecar", "save_primary"}

\* C1: once a provider call of a fail_on_error run was answered with a
\* not-yet-available error, the run issues no provider call for a
\* chronologically later unit.
C1_NoCallAfterHalt ==
    \A r \in DOMAIN datasets :
        run[r].nya > 0 =>
            \A i \in (run[r].nya + 1)..Len(run[r].calls) :
                ~DateLT(run[r].calls[run[r].nya], run[r].calls[i])

\* C2: under fail_on_error a provider call answered with a fatal outcome
\* (structured error other than not-yet-available, or an HTTP error with no
\* structured body) makes incremental_download raise to its caller; no
\* further unit is attempted.
C2_FatalAborts ==
    \A r \in DOMAIN datasets :
        (datasets[r].fail_on_error /\ run[r].last \in {"Fatal", "Transport"})
            => run[r].pc = "raised"

\* C3: a unit whose primary key or whose sidecar key is in storage when the
\* loop reaches it gets no provider call and no write: whenever a run is
\* requesting or committing a unit, storage held neither key of the unit
\* before the run's own sidecar save.
C3_DoneUnitsUntouched ==
    \A r \in DOMAIN datasets :
        /\ run[r].pc \in {"retrieve", "save_json", "save_sidecar"} =>
              /\ ~exists(storage, Item(r).key)
              /\ ~exists(storage, Sidecar(Item(r).key))
        /\ run[r].pc = "save_primary" => ~exists(storage, Item(r).key)

C3_Witness ==
    \E r \in DOMAIN datasets :
        \E i \in 1..Len(run[r].items) :
            /\ i < run[r].idx
            /\ ~exists(storage, run[r].items[i].key)
            /\ exists(storage, Sidecar(run[r].items[i].key))
            /\ run[r].items[i].unit \notin Range(run[r].calls)
            /\ run[r].calls # <<>>

\* C4: a unit that a run fetched and committed is never requested from the
\* provider again, in that run or in any later one.
C4_CommittedNeverRequested ==
    \A r \in DOMAIN datasets :
        run[r].pc = "retrieve" =>
            Item(r).key \notin {c.key : c \in committed}

C4_Witness ==
    \E r \in DOMAIN datasets :
        /\ invocations = 2
        /\ run[r].pc = "retrieve"
        /\ run[r].idx > 1
        /\ run[r].items[1].key \in {c.key : c \in committed}
        /\ run[r].items[1].unit \notin Range(run[r].calls)

\* the kinds of failed provider call that safe_retrieve handles
FailureKinds == {"NotYetAvailable", "Fatal", "Transport"}

\* C5: with fail_on_error = false a failed provider call (not yet
\* available, structured fatal, HTTP error without structured body) raises
\* nothing and stops nothing: the run never breaks out of its loop, and
\* when it returns it is Completed and every element of the loop is done
\* in storage or was requested.
C5_FailuresAreSkipped ==
    \A r \in DOMAIN datasets :
        ~datasets[r].fail_on_error =>
            /\ run[r].last \in FailureKinds => run[r].pc # "raised"
            /\ ~run[r].broke
            /\ run[r].pc = "returned" =>
                  /\ Phase(r) = "Completed"
                  /\ \A i \in 1..Len(run[r].items) :
                        \/ IsDone(storage, run[r].items[i].key)
                        \/ run[r].items[i].unit \in Range(run[r].calls)

\* C6: a structured error whose message holds "not available yet" in any
\* mix of cases never makes incremental_download raise, whatever
\* fail_on_error is.
C6_NotYetAvailableNeverRaises ==
    \A r \in DOMAIN datasets :
        run[r].last = "NotYetAvailable" => run[r].pc # "raised" /\ run[r].exc = "none"

\* C7: the units a run issues provider calls for are strictly increasing
\* under (year, month, day).
C7_CallsStrictlyIncreasing ==
    \A r \in DOMAIN datasets :
        \A i \in 1..(Len(run[r].calls) - 1) :
            DateLT(run[r].calls[i], run[r].calls[i + 1])

\* C8: once the provider call for a unit succeeded and both saves returned,
\* storage holds the unit's primary key and its sidecar key, and the
\* sidecar is the JSON form of the request that was passed to the provider.
C8_CommitStoresBoth ==
    \A c \in committed :
        /\ exists(storage, c.key)
        /\ exists(storage, Sidecar(c.key))
        /\ storage[Sidecar(c.key)] = [json |-> c.request]

C8_Witness ==
    \E c \in committed :
        /\ c.request.date # <<>>
        /\ exists(storage, c.key)
        /\ storage[Sidecar(c.key)] = [json |-> c.request]

\* C9: a sidecar key is in storage only if the primary key of its unit is.
C9_SidecarOnlyAfterPrimary ==
    \A k \in DOMAIN storage :
        k.ext = <<".grib", ".json">> => [k EXCEPT !.ext = <<".grib">>] \in DOMAIN storage

\* C10: two interleaved runs never stage at the same local path, and the
\* artifact stored under a dataset's key is the one that dataset's own
\* provider call retrieved for that unit.
C10_NoStagingCollision ==
    /\ \A r1, r2 \in DOMAIN datasets :
          (r1 # r2 /\ InFlight(r1) /\ InFlight(r2))
              => Item(r1).tmpfile # Item(r2).tmpfile
    /\ \A k \in DOMAIN storage :
          k.ext = <<".grib">> => storage[k].grib = k.path[1]

(***************************************************************************)
(* main over several datasets.                                             *)
(***************************************************************************)
\* an invocation of main is over: its loop ended or an exception left it
MainOver == mainPc = "idle" /\ invocations > 0

\* the call of incremental_download for dataset r was made
Started(r) == run[r].pc # "idle"

\* C11: when main processes several datasets, a run that ended Aborted does
\* not keep the datasets after it from being run: once main is over, the run
\* of every configured dataset after the aborted one was started.
C11_AbortKeepsLaterRuns ==
    MainOver =>
        \A i \in 1..Len(mainList) : \A j \in (i + 1)..Len(mainList) :
            (/\ mainList[i] \in DOMAIN datasets
             /\ mainList[j] \in DOMAIN datasets
             /\ run[mainList[i]].pc = "raised") => Started(mainList[j])

(***************************************************************************)
(* The boundaries of the candidate units.                                  *)
(***************************************************************************)
\* the later of 1 January of the earliest configured year and min_date
EffectiveStart(c) ==
    LET jan1 == <<MinOf(years), 1, 1>>
    IN  IF c.min_date = <<>> \/ DateLT(c.min_date, jan1) THEN jan1 ELSE c.min_date

\* unit u of the granularity of c does not begin before the unit date b lies in
NotBefore(c, u, b) ==
    IF c.granularity = "yearly" THEN u[1] >= b[1]
    ELSE IF c.granularity = "monthly"
    THEN u[1] > b[1] \/ (u[1] = b[1] /\ u[2] >= b[2])
    ELSE ~DateLT(u, b)

\* C12: no provider call is issued for a unit before the effective start
\* boundary: a yearly run requests no year before the boundary's year, a
\* monthly run no month before the boundary's month, a daily run no day
\* before the boundary.
C12_NoUnitBeforeStart ==
    \A r \in DOMAIN datasets :
        \A i \in 1..Len(run[r].calls) :
            NotBefore(datasets[r], run[r].calls[i], EffectiveStart(datasets[r]))

(***************************************************************************)
(* The candidate units of a run and the requests built for them.           *)
(***************************************************************************)
\* the current date less the lag
EffectiveEnd(c) == FromOrdinal(ToOrdinal(clock) - c.lag_days)

\* the month set and the day set of the template, absent meaning all
MonthSet(c) == IF c.request.month = <<>> THEN {Fmt2(m) : m \in 1..12}
               ELSE Range(c.request.month)
DaySet(c) == IF c.request.day = <<>> THEN {Fmt2(d) : d \in 1..31}
             ELSE Range(c.request.day)

\* the number of days of month m of year y
CalendarLastDay(y, m) ==
    IF m = 2
    THEN (IF y % 400 = 0 \/ (y % 4 = 0 /\ y % 100 # 0) THEN 29 ELSE 28)
    ELSE <<31, 28, 31, 30, 31, 30, 31, 31, 30, 31, 30, 31>>[m]

\* the calendar days of the years the model ranges over
CalendarDays ==
    {d \in (2022..2025) \X (1..12) \X (1..31) : d[3] <= CalendarLastDay(d[1], d[2])}

\* the days from the effective start to the effective end that the template
\* admits
CandidateDays(c) ==
    LET start == EffectiveStart(c)
        end == EffectiveEnd(c)
        months == MonthSet(c)
        days == DaySet(c)
    IN  {d \in CalendarDays :
            /\ ~DateLT(d, start)
            /\ ~DateLT(end, d)
            /\ Fmt2(d[2]) \in months
            /\ Fmt2(d[3]) \in days}

\* the units of the elements of the loop of run r, in order
Units(r) == [i \in 1..Len(run[r].items) |-> run[r].items[i].unit]

\* C13: the candidate units of a daily run are exactly the calendar days
\* from the start boundary to the end boundary whose two-digit month is in
\* the template's month set and whose two-digit day is in its day set, each
\* of them once.
C13_DailyCandidates ==
    \A r \in DOMAIN datasets :
        (datasets[r].granularity = "daily" /\ Started(r)) =>
            LET days == CandidateDays(datasets[r])
            IN  /\ Range(Units(r)) = days
                /\ Len(run[r].items) = Cardinality(days)

\* a daily run from 2023-01-01 to 2023-03-01 with months "01" and days "15"
\* has the one candidate 2023-01-15
C13_Witness ==
    \E r \in DOMAIN datasets :
        /\ datasets[r].granularity = "daily" /\ Started(r)
        /\ EffectiveStart(datasets[r]) = <<2023, 1, 1>>
        /\ EffectiveEnd(datasets[r]) = <<2023, 3, 1>>
        /\ datasets[r].request.month = <<"01">>
        /\ datasets[r].request.day = <<"15">>
        /\ Units(r) = <<<<2023, 1, 15>>>>

\* the inclusive interval of unit u of the granularity of c, as the pair of
\* its first and its last day in ISO form
UnitInterval(c, u) ==
    IF c.granularity = "yearly"
    THEN <<<<u[1], "01", "01">>, <<u[1], "12", "31">>>>
    ELSE IF c.granularity = "monthly"
    THEN <<<<u[1], Fmt2(u[2]), "01">>,
           <<u[1], Fmt2(u[2]), Fmt2(CalendarLastDay(u[1], u[2]))>>>>
    ELSE <<<<u[1], Fmt2(u[2]), Fmt2(u[3])>>, <<u[1], Fmt2(u[2]), Fmt2(u[3])>>>>

\* C14: in range mode the request of a unit carries one inclusive interval:
\* 1 January to 31 December of the year for a yearly unit, the first to the
\* last calendar day of the month for a monthly unit (29 February in a leap
\* year, 28 February otherwise), the same day twice for a daily unit.
C14_RangeInterval ==
    \A r \in DOMAIN datasets :
        datasets[r].use_range =>
            \A i \in 1..Len(run[r].items) :
                run[r].items[i].request.date =
                    <<UnitInterval(datasets[r], run[r].items[i].unit)>>

\* a monthly run in range mode whose candidates hold February of a leap year
\* and of a common year, with the intervals ending on the 29th and the 28th
C14_Witness ==
    \E r \in DOMAIN datasets :
        /\ datasets[r].use_range /\ datasets[r].granularity = "monthly"
        /\ \E i, j \in 1..Len(run[r].items) :
             /\ run[r].items[i].request.date =
                    <<<<<<2024, "02", "01">>, <<2024, "02", "29">>>>>>
             /\ run[r].items[j].request.date =
                    <<<<<<2023, "02", "01">>, <<2023, "02", "28">>>>>>

\* the template's list for a date field, absent or empty meaning all values
TemplateMonths(c) == IF c.request.month = <<>> THEN [m \in 1..12 |-> Fmt2(m)]
                     ELSE c.request.month
TemplateDays(c) == IF c.request.day = <<>> THEN [d \in 1..31 |-> Fmt2(d)]
                   ELSE c.request.day

\* C15: in discrete mode the request of a unit sets the date fields of the
\* unit's own granularity only, and every finer field is the normalised
\* template's: a yearly request has the unit's year and the template's month
\* and day lists, a monthly request the unit's year and month and the
\* template's day list, a daily request the unit's year, month and day.
C15_DiscreteKeepsFinerFields ==
    \A r \in DOMAIN datasets :
        ~datasets[r].use_range =>
            \A i \in 1..Len(run[r].items) :
                LET c == datasets[r]
                    u == run[r].items[i].unit
                    req == run[r].items[i].request
                IN  /\ req.year = <<u[1]>>
                    /\ req.month = IF c.granularity = "yearly"
                                   THEN TemplateMonths(c) ELSE <<Fmt2(u[2])>>
                    /\ req.day = IF c.granularity = "daily"
                                 THEN <<Fmt2(u[3])>> ELSE TemplateDays(c)

\* the invocation of main that is over ended by an exception
MainRaised == MainOver /\ mainPos <= Len(mainList)

\* C16: a selected dataset name that is not in the configuration starts no
\* run and raises no error, it is skipped; with no selection (the list main
\* walks is the configured one) a run is started for every configured
\* dataset.
C16_SelectionOfDatasets ==
    MainOver =>
        /\ (Len(mainList) = 1 /\ mainList[1] \notin DOMAIN datasets) =>
               /\ \A r \in DS : ~Started(r)
               /\ ~MainRaised
        /\ mainList = order => \A r \in DOMAIN datasets : Started(r)

\* unit u of the granularity of c does not begin after the unit date b lies in
NotAfter(c, u, b) ==
    IF c.granularity = "yearly" THEN u[1] <= b[1]
    ELSE IF c.granularity = "monthly"
    THEN u[1] < b[1] \/ (u[1] = b[1] /\ u[2] <= b[2])
    ELSE ~DateLT(b, u)

\* C17: no provider call is issued for a unit that begins after the
\* effective end boundary, the current date less lag_days: a yearly run
\* requests no year after the boundary's year, a monthly run no month after
\* the boundary's month, a daily run no day after the boundary.
C17_NoUnitAfterEnd ==
    \A r \in DOMAIN datasets :
        \A i \in 1..Len(run[r].calls) :
            NotAfter(datasets[r], run[r].calls[i], EffectiveEnd(datasets[r]))

\* a run with a lag that moves the boundary into the year before the current
\* one went through all its units, the last one requested lying in the
\* boundary's year
C17_Witness ==
    \E r \in DOMAIN datasets :
        /\ datasets[r].lag_days > 0
        /\ EffectiveEnd(datasets[r])[1] < clock[1]
        /\ run[r].pc = "returned" /\ ~run[r].broke
        /\ run[r].calls # <<>>
        /\ run[r].calls[Len(run[r].calls)][1] = EffectiveEnd(datasets[r])[1]

(***************************************************************************)
(* The end of a run.                                                       *)
(***************************************************************************)
\* the call of incremental_download for r is over
Ended(r) == run[r].pc \in {"returned", "raised"}

\* C18: a run all of whose provider calls and storage saves succeeded ends
\* Completed, and at its end every candidate unit has its primary key and
\* its sidecar key in storage.
C18_CleanRunCommitsAll ==
    \A r \in DOMAIN datasets :
        (/\ datasets[r].granularity \in {"yearly", "monthly", "daily"}
         /\ Ended(r)
         /\ ~run[r].failed) =>
            /\ Phase(r) = "Completed"
            /\ \A i \in 1..Len(run[r].items) :
                 /\ exists(storage, run[r].items[i].key)
                 /\ exists(storage, Sidecar(run[r].items[i].key))

\* C19: a unit whose provider call did not succeed in a run (not yet
\* available or fatal, fail_on_error true or false) is not written by that
\* run: while the run lasts and after it, until the next run of the
\* dataset, neither its primary key nor its sidecar key is in storage (the
\* gate let the unit through, so neither was there when the call was made).
C19_FailedCallWritesNothing ==
    \A r \in DOMAIN datasets :
        \A i \in 1..Len(run[r].items) :
            run[r].items[i].unit \in run[r].refused =>
                /\ ~exists(storage, run[r].items[i].key)
                /\ ~exists(storage, Sidecar(run[r].items[i].key))

\* the run is in a final state of the design: the call is over, or the
\* not-yet-available answer that halts a fail_on_error run was received
Final(r) == Ended(r) \/ run[r].nya > 0

\* every started run comes to its end
C20_Terminates == \A r \in DS : Started(r) ~> Ended(r)

\* a run that reached a final state issues no further provider call
C20_NoCallWhenFinal ==
    [][\A r \in DOMAIN datasets :
          Final(r) => (run'[r].calls = run[r].calls \/ run'[r] = IdleRun)]_vars

\* C20: provided every provider call and every storage operation returns or
\* fails, every run terminates, in one of the states Completed, Halted and
\* Aborted, and issues no provider call once it reached one of them.
C20_TerminatesAndStops ==
    /\ C20_Terminates
    /\ [](\A r \in DOMAIN datasets :
            Ended(r) => Phase(r) \in {"Completed", "Halted", "Aborted"})
    /\ C20_NoCallWhenFinal

(***************************************************************************)
(* The order of the two saves of a commit.                                 *)
(***************************************************************************)
\* C21: the sidecar of a unit is saved before its primary artifact: a run
\* about to save the primary has the sidecar in storage, every primary key
\* in storage has its sidecar in storage, also after a failed primary save,
\* and a unit that has its sidecar, with or without its primary, is taken
\* as done by every run: none requests it or commits it again.
C21_SidecarBeforePrimary ==
    /\ \A r \in DOMAIN datasets :
          run[r].pc = "save_primary" =>
              /\ exists(storage, Sidecar(Item(r).key))
              /\ ~exists(storage, Item(r).key)
    /\ \A k \in DOMAIN storage :
          k.ext = <<".grib">> => exists(storage, Sidecar(k))
    /\ \A r \in DOMAIN datasets :
          run[r].pc \in {"retrieve", "save_json", "save_sidecar"} =>
              ~exists(storage, Sidecar(Item(r).key))

\* the primary save of a unit failed in an earlier invocation of main; the
\* run of a later invocation went over the unit, which has its sidecar and
\* no primary, without a provider call for it, and committed another unit
C21_Witness ==
    /\ invocations >= 2
    /\ \E r \in DOMAIN datasets :
         /\ run[r].pc = "returned"
         /\ \E i, j \in 1..Len(run[r].items) :
              /\ exists(storage, Sidecar(run[r].items[i].key))
              /\ ~exists(storage, run[r].items[i].key)
              /\ run[r].items[i].unit \notin Range(run[r].calls)
              /\ run[r].items[j].unit \in Range(run[r].calls)
              /\ exists(storage, run[r].items[j].key)

====
